---- MODULE Spec2Model ----
(***************************************************************************)
(* Photo Hunt: the difference finder (scripts/find_differences.py), the    *)
(* batch processor (scripts/batch_process.py) and the catalog sets.json.   *)
(*                                                                         *)
(* An image is a record [shape |-> <<h, w, 3>>, px |-> pixel function],    *)
(* px maps <<x, y>> to a <<B, G, R>> triple, as cv2.imread returns it.     *)
(* A file on disk is an image, "missing" (no such path) or "corrupt"       *)
(* (cv2.imread returns None).                                              *)
(***************************************************************************)
EXTENDS Integers, Sequences, FiniteSets, TLC

(***************************************************************************)
(* Bounds of the model.                                                    *)
(***************************************************************************)
GridW == 6
GridH == 3
MaxChanged == 2
StripW == 12

(***************************************************************************)
(* Program constants.                                                      *)
(***************************************************************************)
THRESH == 30
MAXVAL == 255
DEFAULT_MIN_CONTOUR_AREA == 900
DEFAULT_MERGE_DISTANCE == 50
DEFAULT_TARGET_COUNT == 5

Black  == <<0, 0, 0>>
White  == <<255, 255, 255>>
Grey30 == <<30, 30, 30>>
Grey31 == <<31, 31, 31>>

Abs(n) == IF n < 0 THEN -n ELSE n
Min(a, b) == IF a < b THEN a ELSE b
Max(a, b) == IF a < b THEN b ELSE a

Pixels(h, w) == (0 .. w - 1) \X (0 .. h - 1)

(***************************************************************************)
(* cv2.cvtColor(image, COLOR_BGR2GRAY) on 8-bit pixels: fixed-point        *)
(* 0.114 B + 0.587 G + 0.299 R, rounded.                                   *)
(***************************************************************************)
BGR2GRAY(c) == (c[1] * 3735 + c[2] * 19235 + c[3] * 9798 + 16384) \div 32768

cvtColor(image) == [p \in DOMAIN image.px |-> BGR2GRAY(image.px[p])]

(* cv2.add in place of cv2.absdiff: the saturated sum *)
saturatedSum(gray1, gray2) == [p \in DOMAIN gray1 |-> Min(255, gray1[p] + gray2[p])]

absdiff(gray1, gray2) == [p \in DOMAIN gray1 |-> Abs(gray1[p] - gray2[p])]

(* the comparison >= in place of > *)
thresholdInclusive(diff, thresh, maxval) ==
    [p \in DOMAIN diff |-> IF diff[p] >= thresh THEN maxval ELSE 0]

(* cv2.threshold(diff, thresh, maxval, THRESH_BINARY) *)
threshold(diff, thresh, maxval) ==
    [p \in DOMAIN diff |-> IF diff[p] > thresh THEN maxval ELSE 0]

(***************************************************************************)
(* cv2.dilate(thresh, np.ones((m, m)), iterations=1).  The anchor is the   *)
(* kernel centre (m \div 2, m \div 2); pixels outside the image never      *)
(* contribute (default border value of a dilation).  An empty kernel       *)
(* (m = 0) is replaced by the 3x3 rectangle.                               *)
(***************************************************************************)
KernelSize(merge_distance) == IF merge_distance = 0 THEN 3 ELSE merge_distance

(* a kernel of 2m+1 by 2m+1 ones: every pixel grown by m on each side *)
dilateByRadius(src, merge_distance) ==
    [p \in DOMAIN src |->
        IF \E q \in DOMAIN src :
              /\ src[q] # 0
              /\ Abs(q[1] - p[1]) <= merge_distance
              /\ Abs(q[2] - p[2]) <= merge_distance
        THEN MAXVAL ELSE 0]

(* borderValue=255: the pixels outside the image count as changed *)
dilateBorderSet(src, merge_distance) ==
    LET k == KernelSize(merge_distance)
        a == k \div 2
    IN  [p \in DOMAIN src |->
            IF \E dx \in 0 .. k - 1, dy \in 0 .. k - 1 :
                  LET q == <<p[1] + dx - a, p[2] + dy - a>>
                  IN  q \notin DOMAIN src \/ src[q] # 0
            THEN MAXVAL ELSE 0]

dilate(src, merge_distance) ==
    LET k == KernelSize(merge_distance)
        a == k \div 2
    IN  [p \in DOMAIN src |->
            IF \E dx \in 0 .. k - 1, dy \in 0 .. k - 1 :
                  LET q == <<p[1] + dx - a, p[2] + dy - a>>
                  IN  q \in DOMAIN src /\ src[q] # 0
            THEN MAXVAL ELSE 0]

NonZero(img) == {p \in DOMAIN img : img[p] # 0}

(***************************************************************************)
(* cv2.findContours(dilated, RETR_EXTERNAL, CHAIN_APPROX_SIMPLE).          *)
(* The raster scan starts an outer border at the first pixel of every      *)
(* 8-connected component; the border is followed as in Suzuki-Abe.         *)
(***************************************************************************)
N8(p) == ((p[1] - 1 .. p[1] + 1) \X (p[2] - 1 .. p[2] + 1)) \ {p}
N4(p) == {<<p[1] - 1, p[2]>>, <<p[1] + 1, p[2]>>, <<p[1], p[2] - 1>>, <<p[1], p[2] + 1>>}

(* the pixels of nz that are 8-connected to the frontier, added to seen *)
RECURSIVE Grow8(_, _, _)
Grow8(frontier, seen, nz) ==
    IF frontier = {} THEN seen
    ELSE LET next == (UNION {N8(p) : p \in frontier} \cap nz) \ seen
         IN  Grow8(next, seen \cup next, nz)

(* the pixels of bg that are 4-connected to the frontier, added to seen *)
RECURSIVE Grow4(_, _, _)
Grow4(frontier, seen, bg) ==
    IF frontier = {} THEN seen
    ELSE LET next == (UNION {N4(p) : p \in frontier} \cap bg) \ seen
         IN  Grow4(next, seen \cup next, bg)

(* first pixel of a set in raster order: top row first, then leftmost *)
RasterFirst(S) ==
    CHOOSE p \in S : \A q \in S : p[2] < q[2] \/ (p[2] = q[2] /\ p[1] <= q[1])

(* the 8 neighbour offsets, counter-clockwise from east (y grows downward) *)
Deltas == <<  <<1, 0>>, <<1, -1>>, <<0, -1>>, <<-1, -1>>,
              <<-1, 0>>, <<-1, 1>>, <<0, 1>>, <<1, 1>>  >>

Step(p, s) == <<p[1] + Deltas[(s % 8) + 1][1], p[2] + Deltas[(s % 8) + 1][2]>>

(* the first direction s+1, s+2, ... (counter-clockwise) with a set pixel *)
RECURSIVE NextDir(_, _, _)
NextDir(nz, p, s) ==
    IF Step(p, s + 1) \in nz THEN (s + 1) % 8 ELSE NextDir(nz, p, s + 1)

(* the first direction s-1, s-2, ... (clockwise) with a set pixel, or s_end *)
RECURSIVE FirstDir(_, _, _, _)
FirstDir(nz, p, s, s_end) ==
    LET t == (s + 7) % 8
    IN  IF Step(p, t) \in nz \/ t = s_end THEN t ELSE FirstDir(nz, p, t, s_end)

RECURSIVE Follow(_, _, _, _, _, _)
Follow(nz, i0, i1, i3, s, pts) ==
    LET t  == NextDir(nz, i3, s)
        i4 == Step(i3, t)
    IN  IF i4 = i0 /\ i3 = i1
        THEN Append(pts, i3)
        ELSE Follow(nz, i0, i1, i4, (t + 4) % 8, Append(pts, i3))

(* the outer border that starts at i0, as a sequence of points *)
FetchContour(nz, i0) ==
    LET s == FirstDir(nz, i0, 4, 4)
    IN  IF Step(i0, s) \notin nz
        THEN <<i0>>
        ELSE Follow(nz, i0, Step(i0, s), i0, s, <<>>)

(* RETR_EXTERNAL: a component lying in a hole of another one is skipped *)
IsExternal(nz, h, w, i0) ==
    \/ i0[1] = 0
    \/ i0[2] = 0
    \/ LET bg == ((-1 .. w) \X (-1 .. h)) \ nz
           west == <<i0[1] - 1, i0[2]>>
       IN  <<-1, -1>> \in Grow4({west}, {west}, bg)

RECURSIVE ScanContours(_, _, _, _)
ScanContours(nz, rest, h, w) ==
    IF rest = {} THEN {}
    ELSE LET i0   == RasterFirst(rest)
             comp == Grow8({i0}, {i0}, rest)
             more == ScanContours(nz, rest \ comp, h, w)
         IN  IF IsExternal(nz, h, w, i0)
             THEN {FetchContour(nz, i0)} \cup more
             ELSE more

findContours(img, h, w) == ScanContours(NonZero(img), NonZero(img), h, w)

(* the area of the bounding box in place of the contour's *)
boundingBoxArea2(contour) ==
    LET xs == {contour[i][1] : i \in DOMAIN contour}
        ys == {contour[i][2] : i \in DOMAIN contour}
    IN  2 * Cardinality(xs) * Cardinality(ys)

(***************************************************************************)
(* cv2.contourArea: the shoelace formula over the contour points.  The     *)
(* model keeps twice the area, an integer (the area is a multiple of 0.5). *)
(***************************************************************************)
RECURSIVE Shoelace(_, _)
Shoelace(c, i) ==
    IF i > Len(c) THEN 0
    ELSE LET p == c[i]
             q == c[(i % Len(c)) + 1]
         IN  p[1] * q[2] - q[1] * p[2] + Shoelace(c, i + 1)

contourArea2(contour) == Abs(Shoelace(contour, 1))

(* a bounding box one pixel too wide and too high *)
boundingRectWide(contour) ==
    LET xs == {contour[i][1] : i \in DOMAIN contour}
        ys == {contour[i][2] : i \in DOMAIN contour}
        x0 == CHOOSE x \in xs : \A v \in xs : x <= v
        x1 == CHOOSE x \in xs : \A v \in xs : x >= v
        y0 == CHOOSE y \in ys : \A v \in ys : y <= v
        y1 == CHOOSE y \in ys : \A v \in ys : y >= v
    IN  <<x0, y0, x1 - x0 + 2, y1 - y0 + 2>>

(* cv2.boundingRect: <<x, y, w, h>> of the points *)
boundingRect(contour) ==
    LET xs == {contour[i][1] : i \in DOMAIN contour}
        ys == {contour[i][2] : i \in DOMAIN contour}
        x0 == CHOOSE x \in xs : \A v \in xs : x <= v
        x1 == CHOOSE x \in xs : \A v \in xs : x >= v
        y0 == CHOOSE y \in ys : \A v \in ys : y <= v
        y1 == CHOOSE y \in ys : \A v \in ys : y >= v
    IN  <<x0, y0, x1 - x0 + 1, y1 - y0 + 1>>

(***************************************************************************)
(* Python list.sort(key=area, reverse=True): stable, largest area first.   *)
(***************************************************************************)
(* the sort without reverse=True: smallest area first *)
RECURSIVE InsertAscending(_, _)
InsertAscending(sorted, d) ==
    IF sorted = <<>> THEN <<d>>
    ELSE IF Head(sorted).area2 <= d.area2
         THEN <<Head(sorted)>> \o InsertAscending(Tail(sorted), d)
         ELSE <<d>> \o sorted

RECURSIVE InsertByArea(_, _)
InsertByArea(sorted, d) ==
    IF sorted = <<>> THEN <<d>>
    ELSE IF Head(sorted).area2 >= d.area2
         THEN <<Head(sorted)>> \o InsertByArea(Tail(sorted), d)
         ELSE <<d>> \o sorted

RECURSIVE SortByArea(_)
SortByArea(ds) ==
    IF ds = <<>> THEN <<>>
    ELSE InsertByArea(SortByArea(SubSeq(ds, 1, Len(ds) - 1)), ds[Len(ds)])

(* the slice l[:n + 1]: one entry too many *)
SliceInclusive(l, n) ==
    IF n + 1 >= 0 THEN SubSeq(l, 1, Min(n + 1, Len(l)))
    ELSE SubSeq(l, 1, Max(0, Len(l) + n + 1))

(* Python slice l[:n], n of either sign *)
Slice(l, n) ==
    IF n >= 0 THEN SubSeq(l, 1, Min(n, Len(l)))
    ELSE SubSeq(l, 1, Max(0, Len(l) + n))

(***************************************************************************)
(* find_differences, lines 82-94: grayscale, absdiff, threshold, dilate.   *)
(***************************************************************************)
Thresh(image1, image2) ==
    threshold(absdiff(cvtColor(image1), cvtColor(image2)), THRESH, MAXVAL)

Dilated(image1, image2, merge_distance) ==
    dilate(Thresh(image1, image2), merge_distance)

(* the filter with the comparison turned round *)
AcceptsSmall(area2, min_contour_area) == area2 <= 2 * min_contour_area

(* lines 100-111: the loop over the contours, in the order they come *)
Accepts(area2, min_contour_area) == area2 >= 2 * min_contour_area

RECURSIVE CollectDifferences(_, _)
CollectDifferences(contours, min_contour_area) ==
    IF contours = <<>> THEN <<>>
    ELSE LET contour == Head(contours)
             area2   == contourArea2(contour)
             r       == boundingRect(contour)
             rest    == CollectDifferences(Tail(contours), min_contour_area)
         IN  IF Accepts(area2, min_contour_area)
             THEN <<[x |-> r[1], y |-> r[2], width |-> r[3], height |-> r[4],
                     area2 |-> area2]>> \o rest
             ELSE rest

(* line 114 *)
AllDifferences(contours, min_contour_area) ==
    SortByArea(CollectDifferences(contours, min_contour_area))

StripArea(d) == [x |-> d.x, y |-> d.y, width |-> d.width, height |-> d.height]

(* line 117 *)
TopDifferences(all_differences, target_count) ==
    LET top == Slice(all_differences, target_count)
    IN  [i \in DOMAIN top |-> StripArea(top[i])]

(* the warning with the two branches exchanged *)
WarningSwapped(found_count, target_count) ==
    IF found_count # target_count
    THEN IF found_count < target_count THEN "too_many" ELSE "too_few"
    ELSE "none"

(* lines 123-130 *)
Warning(found_count, target_count) ==
    IF found_count # target_count
    THEN IF found_count < target_count THEN "too_few" ELSE "too_many"
    ELSE "none"

(* every order in which the contours of a set can be listed *)
RECURSIVE Orders(_)
Orders(S) ==
    IF S = {} THEN {<<>>}
    ELSE UNION {{<<c>> \o rest : rest \in Orders(S \ {c})} : c \in S}

(***************************************************************************)
(* Inputs of the detection runs.                                           *)
(***************************************************************************)
RECURSIVE SubsetsUpTo(_, _)
SubsetsUpTo(S, k) ==
    IF k = 0 THEN {{}}
    ELSE LET smaller == SubsetsUpTo(S, k - 1)
         IN  smaller \cup {T \cup {p} : T \in smaller, p \in S}

Uniform(h, w, colour) ==
    [exists |-> TRUE, decodes |-> TRUE, shape |-> <<h, w, 3>>,
     px |-> [p \in Pixels(h, w) |-> colour]]

Paint(h, w, bg, paint, S) ==
    [exists |-> TRUE, decodes |-> TRUE, shape |-> <<h, w, 3>>,
     px |-> [p \in Pixels(h, w) |-> IF p \in S THEN paint ELSE bg]]

MissingFile == [exists |-> FALSE, decodes |-> FALSE, shape |-> <<0, 0, 0>>,
                px |-> [p \in {} |-> Black]]
CorruptFile == [exists |-> TRUE, decodes |-> FALSE, shape |-> <<0, 0, 0>>,
                px |-> [p \in {} |-> Black]]

ColourPairs == {<<Black, White>>, <<Black, Grey30>>, <<Grey31, Black>>}

(* any set of at most MaxChanged pixels of the grid, repainted *)
Patterns == SubsetsUpTo(Pixels(GridH, GridW), MaxChanged)

(* a strip with one solid block at each slot, drawn from BlockSizes *)
SlotOrigins == <<0, 4, 8>>
BlockSizes == {<<1, 1>>, <<2, 1>>, <<1, 2>>, <<2, 2>>}

Block(x, y, w, h) == (x .. x + w - 1) \X (y .. y + h - 1)

StripPatterns ==
    {UNION {Block(SlotOrigins[i], 0, f[i][1], f[i][2]) : i \in DOMAIN SlotOrigins} :
        f \in [DOMAIN SlotOrigins -> BlockSizes]}

(* one solid block of a size in BlockSizes, anywhere in the grid *)
BlockPatterns ==
    {Block(p[1], p[2], b[1], b[2]) \cap Pixels(GridH, GridW) :
        p \in Pixels(GridH, GridW), b \in BlockSizes}

EditedPairs ==
    {<<Uniform(GridH, GridW, Black), Paint(GridH, GridW, Black, White, S)>> :
        S \in Patterns \cup BlockPatterns}
    \cup {<<Uniform(GridH, GridW, c[1]), Paint(GridH, GridW, c[1], c[2], S)>> :
            c \in ColourPairs, S \in SubsetsUpTo(Pixels(GridH, GridW), 1)}
    \cup {<<Uniform(GridH, StripW, Black), Paint(GridH, StripW, Black, White, S)>> :
            S \in StripPatterns}

SamePairs ==
    {<<Paint(GridH, GridW, c[1], c[2], S), Paint(GridH, GridW, c[1], c[2], S)>> :
        c \in ColourPairs, S \in BlockPatterns \cup {{}}}
    \cup {<<Paint(GridH, StripW, Black, White, S), Paint(GridH, StripW, Black, White, S)>> :
            S \in StripPatterns}

OtherShapes == {<<GridH, GridW - 1>>, <<GridH - 1, GridW>>}

MismatchedPairs ==
    LET a == Uniform(GridH, GridW, Black)
    IN  UNION {{<<a, Uniform(s[1], s[2], White)>>, <<Uniform(s[1], s[2], White), a>>} :
                  s \in OtherShapes}

UnreadablePairs ==
    LET a == Uniform(GridH, GridW, Black)
    IN  {<<MissingFile, a>>, <<a, MissingFile>>, <<CorruptFile, a>>, <<a, CorruptFile>>}

InputPairs == EditedPairs \cup SamePairs \cup MismatchedPairs \cup UnreadablePairs

Config(a, m, t) == [min_contour_area |-> a, merge_distance |-> m, target_count |-> t]

MinAreas == {1, 2, 4, 6}
MergeDistances == {1, 2, 3}
TargetCounts == {1, 2}

ValidConfigs ==
    {Config(a, m, t) : a \in MinAreas, m \in MergeDistances, t \in TargetCounts}

NonPositive == {0, -1}

InvalidConfigs ==
    {Config(v, 3, 2) : v \in NonPositive}
    \cup {Config(1, v, 2) : v \in NonPositive}
    \cup {Config(1, 3, v) : v \in NonPositive}

IsValid(cfg) ==
    cfg.min_contour_area > 0 /\ cfg.merge_distance > 0 /\ cfg.target_count > 0

(***************************************************************************)
(* find_differences as a function of its arguments: every outcome the call *)
(* can have.  The call either raises or returns; the order in which        *)
(* cv2.findContours lists the contours is left open.                       *)
(***************************************************************************)
NoError == [type |-> "none", what |-> "", shape1 |-> <<>>, shape2 |-> <<>>]

Loadable(f) == f.exists /\ f.decodes

Exception(type, what) == [type |-> type, what |-> what, shape1 |-> <<>>, shape2 |-> <<>>]

(* the message printing the first shape twice *)
DimensionMismatchOneShape(image1, image2) ==
    [type |-> "ValueError", what |-> "dimensions",
     shape1 |-> image1.shape, shape2 |-> image1.shape]

(* lines 73-78: the message carries both shapes *)
DimensionMismatch(image1, image2) ==
    [type |-> "ValueError", what |-> "dimensions",
     shape1 |-> image1.shape, shape2 |-> image2.shape]

Raised(exception, done) ==
    [pc |-> "raised", stages |-> done, contours |-> <<>>, all_differences |-> <<>>,
     differences |-> <<>>, warning |-> "none", error |-> exception]

(* lines 97-136, for one order cs of the contours *)
ReturnedWith(cs, cfg) ==
    LET all == AllDifferences(cs, cfg.min_contour_area)
    IN  [pc |-> "returned",
         stages |-> <<"cvtColor", "absdiff", "threshold", "dilate", "findContours">>,
         contours |-> cs,
         all_differences |-> all,
         differences |-> TopDifferences(all, cfg.target_count),
         warning |-> Warning(Len(all), cfg.target_count),
         error |-> NoError]

(* find_differences, lines 42-136 *)
find_differences(image1_path, image2_path, cfg) ==
    IF ~image1_path.exists THEN {Raised(Exception("FileNotFoundError", "image1"), <<>>)}
    ELSE IF ~image2_path.exists
         THEN {Raised(Exception("FileNotFoundError", "image2"), <<>>)}
    ELSE IF ~image1_path.decodes THEN {Raised(Exception("ValueError", "load image1"), <<>>)}
    ELSE IF ~image2_path.decodes THEN {Raised(Exception("ValueError", "load image2"), <<>>)}
    ELSE IF image1_path.shape # image2_path.shape
         THEN {Raised(DimensionMismatch(image1_path, image2_path), <<>>)}
    ELSE IF cfg.merge_distance < 0
         THEN {Raised(Exception("ValueError", "negative dimensions"),
                      <<"cvtColor", "absdiff", "threshold">>)}
    ELSE LET dilated == Dilated(image1_path, image2_path, cfg.merge_distance)
             found   == findContours(dilated, image1_path.shape[1], image1_path.shape[2])
         IN  {ReturnedWith(cs, cfg) : cs \in Orders(found)}

(***************************************************************************)
(* The catalog sets.json and the batch processor.                          *)
(***************************************************************************)
MaxSets == 2

SetIds == 1 .. MaxSets

(* update_sets_json, lines 191-198 *)
NewSet(set_id, diffs, tags, difficulty) ==
    [id |-> set_id,
     image1 |-> <<"images/set", set_id, "/image1.png">>,
     image2 |-> <<"images/set", set_id, "/image2.png">>,
     tags |-> tags, difficulty |-> difficulty, differences |-> diffs]

(* list.sort(key=id): stable, smallest id first *)
RECURSIVE InsertById(_, _)
InsertById(sorted, s) ==
    IF sorted = <<>> THEN <<s>>
    ELSE IF Head(sorted).id <= s.id
         THEN <<Head(sorted)>> \o InsertById(Tail(sorted), s)
         ELSE <<s>> \o sorted

RECURSIVE SortById(_)
SortById(sets) ==
    IF sets = <<>> THEN <<>>
    ELSE InsertById(SortById(SubSeq(sets, 1, Len(sets) - 1)), sets[Len(sets)])

(* the search for an existing entry left out: the entry is always appended *)
appendSet(data, set_id, diffs, tags, difficulty) ==
    SortById(Append(data, NewSet(set_id, diffs, tags, difficulty)))

(* update_sets_json, lines 174-220: the catalog after the call *)
update_sets_json(data, set_id, diffs, tags, difficulty) ==
    LET new_set == NewSet(set_id, diffs, tags, difficulty)
        hits    == {i \in DOMAIN data : data[i].id = set_id}
    IN  IF hits # {}
        THEN LET existing_index == CHOOSE i \in hits : \A j \in hits : i <= j
             IN  [data EXCEPT ![existing_index] = new_set]
        ELSE SortById(Append(data, new_set))

(* get_existing_set_ids, lines 24-27 *)
get_existing_set_ids(data) == {data[i].id : i \in DOMAIN data}

RECURSIVE Ascending(_)
Ascending(S) ==
    IF S = {} THEN <<>>
    ELSE LET m == CHOOSE x \in S : \A y \in S : x <= y
         IN  <<m>> \o Ascending(S \ {m})

(***************************************************************************)
(* The image folders.  A folder holds a pair of the library, by name.      *)
(***************************************************************************)
BatchShape == <<2, 30>>

(* blocks one pixel high, two unchanged pixels apart, of the given widths *)
RECURSIVE Row(_, _)
Row(widths, x) ==
    IF widths = <<>> THEN {}
    ELSE Block(x, 0, Head(widths), 1) \cup Row(Tail(widths), x + Head(widths) + 2)

Scene(widths) ==
    <<Uniform(BatchShape[1], BatchShape[2], Black),
      Paint(BatchShape[1], BatchShape[2], Black, White, Row(widths, 0))>>

Library ==
    [one        |-> Scene(<<2>>),
     pair       |-> Scene(<<3, 3>>),
     four       |-> Scene(<<1, 2, 3, 4>>),
     six        |-> Scene(<<1, 2, 3, 4, 5, 6>>),
     same       |-> <<Uniform(BatchShape[1], BatchShape[2], White),
                      Uniform(BatchShape[1], BatchShape[2], White)>>,
     mismatch   |-> <<Uniform(BatchShape[1], BatchShape[2], Black),
                      Uniform(BatchShape[1], BatchShape[2] - 1, Black)>>,
     incomplete |-> <<Uniform(BatchShape[1], BatchShape[2], Black), MissingFile>>]

Folders == DOMAIN Library

BatchMinAreas == {1, 3}
BatchMerges == {2, 3}

(* process_set passing a target count of its own, larger than the default *)
LibraryOutcomesUncut ==
    [name \in Folders |->
        [a \in BatchMinAreas |->
            [m \in BatchMerges |->
                {[pc |-> o.pc, differences |-> o.differences, error |-> o.error] :
                    o \in find_differences(Library[name][1], Library[name][2],
                                           Config(a, m, DEFAULT_TARGET_COUNT + 1))}]]]

(* what find_differences does on each pair of the library, by its arguments *)
LibraryOutcomes ==
    [name \in Folders |->
        [a \in BatchMinAreas |->
            [m \in BatchMerges |->
                {[pc |-> o.pc, differences |-> o.differences, error |-> o.error] :
                    o \in find_differences(Library[name][1], Library[name][2],
                                           Config(a, m, DEFAULT_TARGET_COUNT))}]]]

VARIABLES
    file1, file2,     \* what image1_path and image2_path hold on disk
    config,           \* min_contour_area, merge_distance, target_count
    pc,               \* "called", "returned" or "raised"; "idle" outside a call
    stages,           \* the pixel operations run so far, in order
    contours,         \* the local list cv2.findContours returned
    all_differences,  \* the local list of lines 100-114, areas included
    differences,      \* the returned list
    warning,          \* the warning printed: "none", "too_few", "too_many"
    error,            \* the exception raised, [type |-> "none"] if none
    images_dir,       \* images/: set id -> name of the pair in setN/, or "none"
    sets_json,        \* data/sets.json: the list under "sets"
    args,             \* the arguments of the last batch run, or of the last
                      \* call of update_sets_json
    results,          \* the results list of the last batch run
    exit_code,        \* the exit code of the last batch run
    op,               \* the last operation: "start", "retune", "add_folder",
                      \* "batch_process"
    detected          \* find_differences tabulated on the pairs of the library

call == <<file1, file2, config, pc, stages, contours, all_differences,
          differences, warning, error>>

batch == <<images_dir, sets_json, args, results, exit_code, op, detected>>

vars == <<call, batch>>

NoArgs == [force |-> FALSE, min_area |-> 0, merge_distance |-> 0]

BatchIdle ==
    /\ images_dir = [s \in SetIds |-> "none"]
    /\ sets_json = <<>>
    /\ args = NoArgs
    /\ results = <<>>
    /\ exit_code = 0
    /\ op = "start"

Init ==
    /\ \E p \in InputPairs : file1 = p[1] /\ file2 = p[2]
    /\ config \in ValidConfigs \cup InvalidConfigs
    /\ pc = "called"
    /\ stages = <<>>
    /\ contours = <<>>
    /\ all_differences = <<>>
    /\ differences = <<>>
    /\ warning = "none"
    /\ error = NoError
    /\ detected = <<>>
    /\ BatchIdle

(* one call of find_differences, lines 42-136 *)
FindDifferences ==
    /\ pc = "called"
    /\ \E o \in find_differences(file1, file2, config) :
          /\ pc' = o.pc
          /\ stages' = o.stages
          /\ contours' = o.contours
          /\ all_differences' = o.all_differences
          /\ differences' = o.differences
          /\ warning' = o.warning
          /\ error' = o.error
    /\ UNCHANGED <<file1, file2, config, batch>>

Next == FindDifferences

Spec == Init /\ [][Next]_vars

(***************************************************************************)
(* The operator tunes --merge-distance: after a run that returned, the     *)
(* script is run again on the same pair with a larger merge distance, as   *)
(* the warning of lines 128-130 advises.                                   *)
(***************************************************************************)
Retune(m) ==
    /\ pc = "returned"
    /\ m > config.merge_distance
    /\ config' = [config EXCEPT !.merge_distance = m]
    /\ \E o \in find_differences(file1, file2, config') :
          /\ pc' = o.pc
          /\ stages' = o.stages
          /\ contours' = o.contours
          /\ all_differences' = o.all_differences
          /\ differences' = o.differences
          /\ warning' = o.warning
          /\ error' = o.error
    /\ op' = "retune"
    /\ UNCHANGED <<file1, file2, images_dir, sets_json, args, results, exit_code,
                   detected>>

TuneNext ==
    \/ FindDifferences
    \/ \E m \in MergeDistances : Retune(m)

(* the pairs that load, with positive parameters; the target count does not
   enter lines 92-114 and is held at one value *)
TuneInit ==
    /\ Init
    /\ Loadable(file1) /\ Loadable(file2)
    /\ IsValid(config)
    /\ \A t \in TargetCounts : config.target_count >= t

TuneSpec == TuneInit /\ [][TuneNext]_vars

(***************************************************************************)
(* batch_process.py                                                        *)
(***************************************************************************)
HasImages(name) ==
    name # "none" /\ Library[name][1].exists /\ Library[name][2].exists

(* find_all_sets, lines 30-58 *)
find_all_sets(dir) == Ascending({s \in DOMAIN dir : HasImages(dir[s])})

(* lines 90-96 *)
Difficulty(n) ==
    IF n <= 3 THEN "easy" ELSE IF n <= DEFAULT_TARGET_COUNT THEN "medium" ELSE "hard"

Result(set_id, status, n, difficulty, message) ==
    [set_id |-> set_id, status |-> status, differences |-> n,
     difficulty |-> difficulty, message |-> message]

(* process_set, lines 61-116: every <<catalog, result>> it can end with *)
process_set(dir, data, set_id, min_area, merge_distance) ==
    {IF o.pc = "raised"
     THEN <<data, Result(set_id, "error", 0, "", o.error.what)>>
     ELSE IF o.differences = <<>>
     THEN <<data, Result(set_id, "warning", 0, "", "No differences detected")>>
     ELSE LET difficulty == Difficulty(Len(o.differences))
          IN  <<update_sets_json(data, set_id, o.differences, <<"default">>, difficulty),
                Result(set_id, "success", Len(o.differences), difficulty, "")>> :
        o \in detected[dir[set_id]][min_area][merge_distance]}

(* the set-ids the run would skip, forgotten: every set is processed *)
ToProcessAll(force, all_sets, existing_sets) == all_sets

(* main, lines 161-165 *)
ToProcess(force, all_sets, existing_sets) ==
    IF force THEN all_sets
    ELSE SelectSeq(all_sets, LAMBDA s : s \notin existing_sets)

(* main, lines 174-182: the loop, every <<catalog, results>> it can end with *)
RECURSIVE ProcessEach(_, _, _, _, _, _)
ProcessEach(dir, data, to_process, min_area, merge_distance, done) ==
    IF to_process = <<>> THEN {<<data, done>>}
    ELSE UNION {ProcessEach(dir, r[1], Tail(to_process), min_area, merge_distance,
                            Append(done, r[2])) :
                   r \in process_set(dir, data, Head(to_process), min_area, merge_distance)}

ErrorCount(rs) == Cardinality({i \in DOMAIN rs : rs[i].status = "error"})

(* main, lines 119-217 *)
BatchProcess(force, min_area, merge_distance) ==
    LET all_sets      == find_all_sets(images_dir)
        existing_sets == get_existing_set_ids(sets_json)
        to_process    == ToProcess(force, all_sets, existing_sets)
    IN  /\ args' = [force |-> force, min_area |-> min_area,
                    merge_distance |-> merge_distance]
        /\ op' = "batch_process"
        /\ IF all_sets = <<>>
           THEN results' = <<>> /\ exit_code' = 1 /\ sets_json' = sets_json
           ELSE IF ~force /\ to_process = <<>>
           THEN results' = <<>> /\ exit_code' = 0 /\ sets_json' = sets_json
           ELSE \E end \in ProcessEach(images_dir, sets_json, to_process, min_area,
                                       merge_distance, <<>>) :
                   /\ sets_json' = end[1]
                   /\ results' = end[2]
                   /\ exit_code' = IF ErrorCount(end[2]) > 0 THEN 1 ELSE 0
        /\ UNCHANGED <<images_dir, detected, call>>

(* a folder setN with a pair of images is put under images/ *)
AddFolder(s, name) ==
    /\ images_dir[s] = "none"
    /\ images_dir' = [images_dir EXCEPT ![s] = name]
    /\ op' = "add_folder"
    /\ UNCHANGED <<sets_json, args, results, exit_code, detected, call>>

BatchInit ==
    /\ file1 = MissingFile /\ file2 = MissingFile
    /\ config = Config(DEFAULT_MIN_CONTOUR_AREA, DEFAULT_MERGE_DISTANCE,
                       DEFAULT_TARGET_COUNT)
    /\ pc = "idle"
    /\ stages = <<>>
    /\ contours = <<>>
    /\ all_differences = <<>>
    /\ differences = <<>>
    /\ warning = "none"
    /\ error = NoError
    /\ detected = LibraryOutcomes
    /\ BatchIdle

BatchNext ==
    \/ \E s \in SetIds, name \in Folders : AddFolder(s, name)
    \/ \E force \in BOOLEAN, a \in BatchMinAreas, m \in BatchMerges :
          BatchProcess(force, a, m)

BatchSpec == BatchInit /\ [][BatchNext]_vars

(***************************************************************************)
(* The properties of find_differences.  The survivors and their areas are  *)
(* counted again from the contours found and the configuration.            *)
(***************************************************************************)
Returned == pc = "returned"

(* the contours cv2.findContours returned in this call, as a set *)
Found == {contours[i] : i \in DOMAIN contours}

(* the contours of found whose area is >= a *)
Survivors(found, a) == {c \in found : contourArea2(c) >= 2 * a}

Ranked(c) ==
    LET r == boundingRect(c)
    IN  [x |-> r[1], y |-> r[2], width |-> r[3], height |-> r[4],
         area2 |-> contourArea2(c)]

(* C1: for images of equal shape and target_count >= 1 the returned list has
   exactly min(target_count, S) entries, S the number of contours whose area
   is >= min_contour_area; so it never has more than target_count entries. *)
C1_Length ==
    (Returned /\ config.target_count >= 1) =>
        /\ Len(differences) =
              Min(config.target_count,
                  Cardinality(Survivors(Found, config.min_contour_area)))
        /\ Len(differences) <= config.target_count

C1_Witness ==
    /\ Returned
    /\ IsValid(config)
    /\ config.target_count = 2
    /\ Cardinality(Survivors(Found, config.min_contour_area)) = 3
    /\ Len(differences) = 2

(* C2: the returned regions are the first target_count survivors in
   descending order of contour area: every returned region's area is >= the
   next one's, and no survivor left out is larger than a returned one. *)
C2_Ranking ==
    (Returned /\ config.target_count >= 1) =>
        LET survivors == Survivors(Found, config.min_contour_area)
            n == Len(differences)
        IN  /\ {all_differences[i] : i \in DOMAIN all_differences}
                  = {Ranked(c) : c \in survivors}
            /\ Len(all_differences) = Cardinality(survivors)
            /\ n = Min(config.target_count, Len(all_differences))
            /\ \A i \in 1 .. n : differences[i] = StripArea(all_differences[i])
            /\ \A i \in 1 .. n - 1 :
                  all_differences[i].area2 >= all_differences[i + 1].area2
            /\ \A i \in 1 .. n : \A j \in n + 1 .. Len(all_differences) :
                  all_differences[j].area2 <= all_differences[i].area2

C2_Witness ==
    /\ Returned
    /\ IsValid(config)
    /\ config.target_count = 2
    /\ Len(all_differences) = 3
    /\ Len(differences) = 2
    /\ all_differences[1].area2 > all_differences[2].area2
    /\ all_differences[2].area2 > all_differences[3].area2
    /\ differences = <<StripArea(all_differences[1]), StripArea(all_differences[2])>>

(* C3: a configuration with a non-positive min_contour_area, merge_distance
   or target_count makes the call fail with a configuration error before any
   pixel operation has run, and no list is returned. *)
C3_InvalidConfigRejected ==
    (pc # "called" /\ Loadable(file1) /\ Loadable(file2)
        /\ file1.shape = file2.shape /\ ~IsValid(config)) =>
        /\ pc = "raised"
        /\ error.what = "invalid config"
        /\ stages = <<>>
        /\ differences = <<>>

(* C4: for two images of differing shape the call fails with the dimension
   error, which carries both shapes; it returns no list and no pixel
   operation runs. *)
C4_DimensionGuard ==
    (pc # "called" /\ Loadable(file1) /\ Loadable(file2)
        /\ file1.shape # file2.shape) =>
        /\ pc = "raised"
        /\ error.type = "ValueError"
        /\ error.what = "dimensions"
        /\ error.shape1 = file1.shape
        /\ error.shape2 = file2.shape
        /\ stages = <<>>
        /\ differences = <<>>
        /\ all_differences = <<>>

C4_Witness ==
    /\ pc = "raised"
    /\ Loadable(file1) /\ Loadable(file2)
    /\ file1.shape[1] = file2.shape[1]
    /\ file1.shape[2] # file2.shape[2]
    /\ error.shape1 = file1.shape
    /\ error.shape2 = file2.shape

(* C5: comparing an image with itself returns the empty list under every
   valid configuration. *)
C5_Identity ==
    (pc # "called" /\ Loadable(file1) /\ file1 = file2 /\ IsValid(config)) =>
        /\ Returned
        /\ differences = <<>>

C5_Witness ==
    /\ Returned
    /\ IsValid(config)
    /\ file1 = file2
    /\ \E p, q \in DOMAIN file1.px : file1.px[p] # file1.px[q]
    /\ differences = <<>>

(* C6: for fixed images and merge_distance, raising min_contour_area never
   adds a survivor: for a1 <= a2 the survivors at a2 are among those at a1,
   and the list found in the state is the one at its own min_contour_area. *)
AreaRange == 0 .. 8

C6_MonotonicFilter ==
    Returned =>
        /\ \A c \in Found :
              LET area2 == contourArea2(c)
              IN  \A a1, a2 \in AreaRange :
                      (a1 <= a2 /\ Accepts(area2, a2)) => Accepts(area2, a1)
        /\ Len(all_differences) =
              Cardinality({c \in Found : Accepts(contourArea2(c), config.min_contour_area)})

C6_Witness ==
    /\ Returned
    /\ IsValid(config)
    /\ Len(all_differences) = 2
    /\ \E a \in AreaRange :
          /\ a > config.min_contour_area
          /\ Cardinality(Survivors(Found, a)) = 1

(* C7: every returned region has x >= 0, y >= 0, width > 0, height > 0 and
   ends inside the image, also when the dilation reaches the border. *)
C7_Containment ==
    Returned =>
        \A i \in DOMAIN differences :
            LET d == differences[i]
            IN  /\ d.x >= 0 /\ d.y >= 0
                /\ d.width > 0 /\ d.height > 0
                /\ d.x + d.width <= file1.shape[2]
                /\ d.y + d.height <= file1.shape[1]

(* a changed pixel in the last column, grown by the kernel up to the border *)
C7_Witness ==
    /\ Returned
    /\ IsValid(config)
    /\ config.merge_distance > 1
    /\ \E p \in DOMAIN file2.px :
          /\ p[1] = file1.shape[2] - 1
          /\ file2.px[p] # file1.px[p]
    /\ \E i \in DOMAIN differences :
          /\ differences[i].x + differences[i].width = file1.shape[2]
          /\ differences[i].y = 0
          /\ differences[i].width > 1

(***************************************************************************)
(* An image pair that differs in one solid block only.                     *)
(***************************************************************************)
RawChanged == NonZero(Thresh(file1, file2))

Extent(S) ==
    LET xs == {p[1] : p \in S}
        ys == {p[2] : p \in S}
    IN  [x0 |-> CHOOSE x \in xs : \A v \in xs : x <= v,
         x1 |-> CHOOSE x \in xs : \A v \in xs : x >= v,
         y0 |-> CHOOSE y \in ys : \A v \in ys : y <= v,
         y1 |-> CHOOSE y \in ys : \A v \in ys : y >= v]

IsSolidBlock(S) ==
    /\ S # {}
    /\ LET e == Extent(S) IN S = (e.x0 .. e.x1) \X (e.y0 .. e.y1)

OneBlock ==
    /\ Loadable(file1) /\ Loadable(file2)
    /\ file1.shape = file2.shape
    /\ IsSolidBlock(RawChanged)

(* the block grown by the kernel and cut at the image border *)
GrownBlock ==
    LET e == Extent(RawChanged)
        k == KernelSize(config.merge_distance)
        a == k \div 2
        x0 == Max(0, e.x0 - (k - 1 - a))
        x1 == Min(file1.shape[2] - 1, e.x1 + a)
        y0 == Max(0, e.y0 - (k - 1 - a))
        y1 == Min(file1.shape[1] - 1, e.y1 + a)
    IN  [x |-> x0, y |-> y0, width |-> x1 - x0 + 1, height |-> y1 - y0 + 1]

(* C8 as stated: the area compared with min_contour_area is the number of
   changed pixels of the block, so a block of fewer changed pixels than
   min_contour_area (a merge_distance larger than the block) returns []. *)
C8_RawAreaFilters ==
    (Returned /\ IsValid(config) /\ OneBlock
        /\ LET e == Extent(RawChanged)
           IN  /\ config.merge_distance > e.x1 - e.x0 + 1
               /\ config.merge_distance > e.y1 - e.y0 + 1
        /\ config.min_contour_area > Cardinality(RawChanged)) =>
        differences = <<>>

(* C8 amended: for a pair differing in one solid block only, the area
   compared with min_contour_area is the contour area of the block after
   dilation, (W - 1) * (H - 1) for a grown block of W x H pixels: the block
   is returned, as that grown box, exactly when this area is >=
   min_contour_area, and [] is returned otherwise. *)
C8_DilatedContourArea ==
    (Returned /\ IsValid(config) /\ OneBlock) =>
        LET g == GrownBlock
        IN  IF (g.width - 1) * (g.height - 1) >= config.min_contour_area
            THEN differences = <<g>>
            ELSE differences = <<>>

(* a 2 x 2 block, 4 changed pixels, returned under min_contour_area = 6 *)
C8_Witness ==
    /\ Returned
    /\ IsValid(config)
    /\ OneBlock
    /\ Cardinality(RawChanged) = 4
    /\ config.merge_distance = 3
    /\ config.min_contour_area = 6
    /\ Len(differences) = 1
    /\ differences[1].width * differences[1].height > 4

(* C9: with S the number of contours that pass the area filter, the
   too-few warning is printed exactly when S < target_count, the too-many
   warning exactly when S > target_count and none when they are equal; the
   call returns its list in all three cases. *)
C9_Warnings ==
    /\ Returned =>
          LET S == Cardinality(Survivors(Found, config.min_contour_area))
          IN  /\ warning = "too_few" <=> S < config.target_count
              /\ warning = "too_many" <=> S > config.target_count
              /\ warning = "none" <=> S = config.target_count
    /\ (pc # "called" /\ Loadable(file1) /\ Loadable(file2)
          /\ file1.shape = file2.shape /\ IsValid(config)) =>
          /\ Returned
          /\ error = NoError

C9_Witness ==
    /\ Returned
    /\ IsValid(config)
    /\ warning = "too_many"
    /\ Len(all_differences) = 3
    /\ Len(differences) = config.target_count

C9_WitnessTooFew ==
    /\ Returned
    /\ IsValid(config)
    /\ warning = "too_few"
    /\ Len(differences) = 1
    /\ config.target_count = 2

(***************************************************************************)
(* find_differences.py, main: calls of update_sets_json on the catalog,    *)
(* which starts empty (load_sets_json, line 32).                           *)
(***************************************************************************)
DifferenceLists ==
    {<<[x |-> 0, y |-> 0, width |-> 2, height |-> 2]>>,
     <<[x |-> 4, y |-> 1, width |-> 3, height |-> 2],
       [x |-> 0, y |-> 0, width |-> 2, height |-> 2]>>}

TagLists == {<<"default">>, <<"outdoor", "nature">>}

Difficulties == {"easy", "medium", "hard"}

UpdateSetsJson(set_id, diffs, tags, difficulty) ==
    /\ sets_json' = update_sets_json(sets_json, set_id, diffs, tags, difficulty)
    /\ args' = [set_id |-> set_id, differences |-> diffs, tags |-> tags,
                difficulty |-> difficulty]
    /\ op' = "update_sets_json"
    /\ UNCHANGED <<images_dir, results, exit_code, detected, call>>

CatalogInit ==
    /\ file1 = MissingFile /\ file2 = MissingFile
    /\ config = Config(DEFAULT_MIN_CONTOUR_AREA, DEFAULT_MERGE_DISTANCE,
                       DEFAULT_TARGET_COUNT)
    /\ pc = "idle"
    /\ stages = <<>>
    /\ contours = <<>>
    /\ all_differences = <<>>
    /\ differences = <<>>
    /\ warning = "none"
    /\ error = NoError
    /\ detected = <<>>
    /\ BatchIdle

CatalogNext ==
    \E set_id \in SetIds, diffs \in DifferenceLists, tags \in TagLists,
       difficulty \in Difficulties :
        UpdateSetsJson(set_id, diffs, tags, difficulty)

CatalogSpec == CatalogInit /\ [][CatalogNext]_vars

(***************************************************************************)
(* The properties of the batch processor.                                  *)
(***************************************************************************)
(* the folders setN that hold both images *)
Discovered ==
    {s \in SetIds : images_dir[s] # "none"
                    /\ Library[images_dir[s]][1].exists
                    /\ Library[images_dir[s]][2].exists}

InCatalog(data) == {data[i].id : i \in DOMAIN data}

Entries(data) == {data[i] : i \in DOMAIN data}

(* C10: a batch run without --force processes exactly the discovered sets
   whose id is not yet in the catalog, each once, and every entry the catalog
   held before the run is still in it, unchanged; a run with --force
   processes every discovered set, those in the catalog included, and the
   entry of every set it processed successfully is the new one. *)
C10_BatchFrame ==
    [][op' = "batch_process" =>
          LET processed == {results'[i].set_id : i \in DOMAIN results'}
          IN  /\ Len(results') = Cardinality(processed)
              /\ IF args'.force
                 THEN processed = Discovered
                 ELSE /\ processed = Discovered \ InCatalog(sets_json)
                      /\ Entries(sets_json) \subseteq Entries(sets_json')
              /\ \A i \in DOMAIN results' :
                    results'[i].status = "success" =>
                        \E e \in Entries(sets_json') :
                            /\ e.id = results'[i].set_id
                            /\ Len(e.differences) = results'[i].differences
                            /\ e.difficulty = results'[i].difficulty
              /\ InCatalog(sets_json') =
                    InCatalog(sets_json)
                        \cup {results'[i].set_id : i \in
                                {j \in DOMAIN results' : results'[j].status = "success"}}
    ]_vars

(* after a run without --force: a new set was added, and an entry stays
   that this run's arguments would not have produced *)
C10_Witness ==
    /\ op = "batch_process"
    /\ ~args.force
    /\ \E i \in DOMAIN results : results[i].status = "success"
    /\ \E e \in Entries(sets_json) :
          /\ e.id \notin {results[i].set_id : i \in DOMAIN results}
          /\ e.id \in Discovered
          /\ \A o \in detected[images_dir[e.id]][args.min_area][args.merge_distance] :
                o.differences # e.differences

(***************************************************************************)
(* The properties of the dilation.                                         *)
(***************************************************************************)
Chebyshev(p, q) == Max(Abs(p[1] - q[1]), Abs(p[2] - q[2]))

(* the pixels a changed pixel q of the thresholded image spreads to under
   the m x m kernel: (m - 1) \div 2 to the left and up, m \div 2 to the
   right and down, cut at the image border *)
Spread(q, m, h, w) ==
    ((q[1] - (m - 1) \div 2 .. q[1] + m \div 2)
        \X (q[2] - (m - 1) \div 2 .. q[2] + m \div 2))
    \cap Pixels(h, w)

(* C11 as stated: after the dilation a pixel is changed if and only if a
   changed pixel of the thresholded image lies within Chebyshev distance
   merge_distance of it. *)
C11_GrowsByRadius ==
    (Returned /\ IsValid(config)) =>
        LET thresh == Thresh(file1, file2)
            dilated == Dilated(file1, file2, config.merge_distance)
        IN  \A p \in DOMAIN dilated :
                dilated[p] # 0 <=>
                    \E q \in NonZero(thresh) : Chebyshev(p, q) <= config.merge_distance

(* C11, amended: the kernel is merge_distance pixels wide, not 2 *
   merge_distance + 1.  After the dilation the changed pixels are exactly
   those the changed pixels of the thresholded image spread to, each to the
   merge_distance x merge_distance window around it (reach (m - 1) \div 2
   left and up, m \div 2 right and down, cut at the border); the dilated
   image has the values 0 and 255 only. *)
C11_GrowsByKernel ==
    (Returned /\ IsValid(config)) =>
        LET thresh == Thresh(file1, file2)
            dilated == Dilated(file1, file2, config.merge_distance)
            h == file1.shape[1]
            w == file1.shape[2]
        IN  /\ NonZero(dilated) =
                  UNION {Spread(q, config.merge_distance, h, w) : q \in NonZero(thresh)}
            /\ \A p \in DOMAIN dilated : dilated[p] \in {0, MAXVAL}

(* an even kernel has grown a changed pixel, to one side more than the other *)
C11_Witness ==
    /\ Returned /\ IsValid(config)
    /\ config.merge_distance = 2
    /\ LET thresh == Thresh(file1, file2)
           dilated == Dilated(file1, file2, config.merge_distance)
       IN  \E q \in NonZero(thresh) :
              /\ <<q[1] + 1, q[2]>> \in NonZero(dilated) \ NonZero(thresh)
              /\ q[1] > 0
              /\ <<q[1] - 1, q[2]>> \notin NonZero(dilated)

(***************************************************************************)
(* The properties of tuning the merge distance.                            *)
(***************************************************************************)
(* a second run on the same pair, both with positive parameters, the second
   with the larger merge distance *)
Retuned ==
    /\ pc = "returned" /\ pc' = "returned"
    /\ IsValid(config) /\ IsValid(config')
    /\ config'.merge_distance > config.merge_distance
    /\ config'.min_contour_area = config.min_contour_area
    /\ file1' = file1 /\ file2' = file2

(* C12 as stated: for a fixed pair and a fixed minimum area, raising the
   merge distance never increases the number of differences found (the
   regions that survive the area filter). *)
C12_FewerSurvivors ==
    [][Retuned => Len(all_differences') <= Len(all_differences)]_vars

(* C12, amended: raising the merge distance never increases the number of
   regions found before the area filter (the contours of the dilated
   image), so the run with the larger merge distance has at most as many
   survivors as the run with the smaller one had contours.  The number of
   survivors itself can grow, since dilation enlarges the areas that are
   compared with the minimum area. *)
C12_FewerContours ==
    [][Retuned => /\ Len(contours') <= Len(contours)
                  /\ Len(all_differences') <= Len(contours)]_vars

(* two separate regions of the undilated difference have merged into one *)
C12_Witness ==
    /\ op = "retune"
    /\ Returned /\ IsValid(config)
    /\ Len(contours) = 1
    /\ Cardinality(findContours(Dilated(file1, file2, 1),
                                file1.shape[1], file1.shape[2])) = 2

(***************************************************************************)
(* The properties of the binarization.                                     *)
(***************************************************************************)
(* the absolute difference of the luminance of the two images at pixel p *)
LumaDiff(p) == Abs(BGR2GRAY(file1.px[p]) - BGR2GRAY(file2.px[p]))

(* C13: a pixel is changed exactly when its absolute luminance difference
   is greater than 30, so a difference of exactly 30 is unchanged: a run
   with positive parameters finds no contour, and returns the empty list,
   whenever no pixel differs by more than 30, and it finds a contour
   whenever some pixel does. *)
C13_StrictThreshold ==
    (Returned /\ IsValid(config)) =>
        /\ (\A p \in DOMAIN file1.px : LumaDiff(p) <= 30)
              => (contours = <<>> /\ all_differences = <<>> /\ differences = <<>>)
        /\ (\E p \in DOMAIN file1.px : LumaDiff(p) > 30) => contours # <<>>

(* a pixel differs by exactly 30 and nothing is returned *)
C13_Witness ==
    /\ Returned /\ IsValid(config)
    /\ \E p \in DOMAIN file1.px : LumaDiff(p) = 30
    /\ \A p \in DOMAIN file1.px : LumaDiff(p) <= 30
    /\ differences = <<>>

(* a pixel differs by exactly 31 and a region is returned *)
C13_WitnessAbove ==
    /\ Returned /\ IsValid(config)
    /\ \E p \in DOMAIN file1.px : LumaDiff(p) = 31
    /\ \A p \in DOMAIN file1.px : LumaDiff(p) <= 31
    /\ differences # <<>>

(***************************************************************************)
(* The properties of the catalog.                                          *)
(***************************************************************************)
(* C14: every call of update_sets_json leaves the catalog in strictly
   ascending id order (so with one entry per id), with the ids it had and
   the id passed; the entry of that id carries the differences, tags and
   difficulty of the call; every other entry is kept; and a call for an id
   the catalog already held changes neither the number of entries nor the
   place or content of any other entry.  The catalog starts empty, so it
   holds exactly the ids ever passed, each with its most recent call. *)
C14_Catalog ==
    [][op' = "update_sets_json" =>
          LET set_id == args'.set_id
          IN  /\ \A i, j \in DOMAIN sets_json' :
                    i < j => sets_json'[i].id < sets_json'[j].id
              /\ InCatalog(sets_json') = InCatalog(sets_json) \cup {set_id}
              /\ \E e \in Entries(sets_json') :
                    /\ e.id = set_id
                    /\ e.differences = args'.differences
                    /\ e.tags = args'.tags
                    /\ e.difficulty = args'.difficulty
              /\ \A e \in Entries(sets_json) :
                    e.id # set_id => e \in Entries(sets_json')
              /\ set_id \in InCatalog(sets_json) =>
                    /\ Len(sets_json') = Len(sets_json)
                    /\ \A i \in DOMAIN sets_json :
                          sets_json[i].id # set_id => sets_json'[i] = sets_json[i]
    ]_vars

(* the catalog holds every id, in order, the smaller one written last *)
C14_Witness ==
    /\ op = "update_sets_json"
    /\ Len(sets_json) = Cardinality(SetIds)
    /\ args.set_id = sets_json[1].id
    /\ sets_json[1].differences = args.differences
    /\ \E i \in DOMAIN sets_json : sets_json[i].differences # args.differences

(***************************************************************************)
(* The properties of the entries the batch processor writes.               *)
(***************************************************************************)
EntryOf(data, set_id) == {e \in Entries(data) : e.id = set_id}

(* C15: after a batch run every entry of the catalog (all of them written
   by process_set) has between 1 and 5 differences, difficulty "easy" when
   it has at most 3 and "medium" otherwise, never "hard"; a set whose result
   is "warning" or "error" has the entry it had before the run, or none,
   and a set whose result is "success" has an entry with the number of
   differences reported. *)
C15_WrittenEntries ==
    [][op' = "batch_process" =>
          /\ \A e \in Entries(sets_json') :
                /\ Len(e.differences) >= 1
                /\ Len(e.differences) <= 5
                /\ e.difficulty = IF Len(e.differences) <= 3 THEN "easy" ELSE "medium"
                /\ e.difficulty # "hard"
          /\ \A i \in DOMAIN results' :
                IF results'[i].status = "success"
                THEN \E e \in EntryOf(sets_json', results'[i].set_id) :
                        Len(e.differences) = results'[i].differences
                ELSE /\ results'[i].status \in {"warning", "error"}
                     /\ results'[i].differences = 0
                     /\ EntryOf(sets_json', results'[i].set_id)
                            = EntryOf(sets_json, results'[i].set_id)
    ]_vars

(* a pair with more than five regions was cut to five and filed as medium,
   while another set of the same run was left out of the catalog *)
C15_Witness ==
    /\ op = "batch_process"
    /\ \E e \in Entries(sets_json) :
          /\ Len(e.differences) = 5
          /\ e.difficulty = "medium"
          /\ images_dir[e.id] = "six"
    /\ \E i \in DOMAIN results :
          /\ results[i].status \in {"warning", "error"}
          /\ EntryOf(sets_json, results[i].set_id) = {}

====
